---- MODULE Spec2Model ----
(***************************************************************************)
(* Attendance bot (src/main.py): per-(chat, user) attendance store,        *)
(* button / command handlers run by the webhook dispatcher, one-shot       *)
(* warning / timeout jobs and the recurring reset / report jobs run by the *)
(* job queue.                                                              *)
(***************************************************************************)
EXTENDS Integers, Sequences, FiniteSets, TLC

\* ------------------------------------------------------------------ bounds
MaxTime == 3600      \* the clock stops advancing here (seconds)
TickStep == 1800     \* largest advance of the clock in one step (seconds)
MaxJobs == 4         \* one-shot jobs ever scheduled (two per started activity)
MaxStack == 2        \* open activity records per person
MaxTotal == 20       \* admin fines keep |total| within this
MaxArgs == 2         \* longest argument list of a command
MaxEvents == 2       \* updates delivered to the webhook
MaxRecurring == 1    \* runs of the daily / monthly jobs
MaxPresses == 3      \* button presses, where only buttons are pressed

\* ------------------------------------------------------------ input domains
Chats == {1, 2}
\* 7 stands for the configured admin id 7124683213 (beyond TLC's integers);
\* only membership in ADMIN_USER_IDS is ever tested on it.
ADMIN_USER_IDS == {7}
Users == {1} \cup ADMIN_USER_IDS
Langs == {"zh", "en", "km"}
\* command arguments are strings, modelled as sequences of characters
UidTokens == { <<"1">>, <<"7">>, <<"x">> }
AmountTokens == { <<"2", "0">>, <<"-", "2", "0">>, <<"x">> }

RECURSIVE ArgListsOfLen(_)
ArgListsOfLen(n) ==
  IF n = 0 THEN { <<>> }
  ELSE IF n = 1 THEN { <<t>> : t \in UidTokens }
  ELSE { Append(s, t) : s \in ArgListsOfLen(n - 1), t \in AmountTokens }

\* context.args of a command
ArgLists == UNION { ArgListsOfLen(n) : n \in 0..MaxArgs }
\* callback_data of a button press
ButtonData == {"work", "off", "eat", "toilet", "smoke", "meeting", "back"}
\* context.bot.id, and the new_chat_members lists of a membership update
BotId == 0
MemberLists == { <<BotId>>, <<1>>, <<1, BotId>> }

\* ---------------------------------------------------------------- config
ACTIVITY_LIMITS ==
  [ eat     |-> [limit_min |-> 30, fine |-> 10],
    toilet  |-> [limit_min |-> 15, fine |-> 10],
    smoke   |-> [limit_min |-> 10, fine |-> 10],
    meeting |-> [limit_min |-> 60, fine |-> 0] ]

NAMES ==
  [ menu_title  |-> [zh |-> "menu_title/zh", en |-> "Please tap a button",
                     km |-> "menu_title/km"],
    no_activity |-> [zh |-> "no_activity/zh", en |-> "No activity running.",
                     km |-> "no_activity/km"] ]

\* ------------------------------------------------------- python primitives
\* str(n)
str(n) == ToString(n)

\* update.effective_user.full_name / query.from_user.full_name
full_name(u) == "N" \o ToString(u)

Digits == [c \in {"0", "1", "2", "3", "4", "5", "6", "7", "8", "9"} |->
             CASE c = "0" -> 0 [] c = "1" -> 1 [] c = "2" -> 2 [] c = "3" -> 3
               [] c = "4" -> 4 [] c = "5" -> 5 [] c = "6" -> 6 [] c = "7" -> 7
               [] c = "8" -> 8 [] c = "9" -> 9]

AllDigits(s) == Len(s) > 0 /\ \A i \in 1..Len(s) : s[i] \in DOMAIN Digits

RECURSIVE DigitsValue(_)
DigitsValue(s) ==
  IF s = <<>> THEN 0
  ELSE 10 * DigitsValue(SubSeq(s, 1, Len(s) - 1)) + Digits[s[Len(s)]]

\* int(s) raises ValueError unless s is an optionally signed digit string
IntOk(s) ==
  IF s # <<>> /\ s[1] \in {"-", "+"} THEN AllDigits(Tail(s)) ELSE AllDigits(s)

int(s) ==
  IF s[1] = "-" THEN 0 - DigitsValue(Tail(s))
  ELSE IF s[1] = "+" THEN DigitsValue(Tail(s))
  ELSE DigitsValue(s)

\* str.strip() on a sequence of pieces none of which contains inner blanks
RECURSIVE LStrip(_)
LStrip(s) ==
  IF s # <<>> /\ s[1] \in {"", " "} THEN LStrip(Tail(s)) ELSE s

RECURSIVE RStrip(_)
RStrip(s) ==
  IF s # <<>> /\ s[Len(s)] \in {"", " "}
  THEN RStrip(SubSeq(s, 1, Len(s) - 1)) ELSE s

RECURSIVE Concat(_)
Concat(s) == IF s = <<>> THEN "" ELSE s[1] \o Concat(Tail(s))

\* format_td(td), td given in whole seconds
format_td(total) ==
  LET h == total \div 3600
      m == (total % 3600) \div 60
      s == total % 60
      hp == IF h # 0 THEN str(h) \o "h" ELSE ""
      mp == IF m # 0 THEN str(m) \o "m" ELSE ""
      sp == IF s # 0 THEN str(s) \o "s" ELSE ""
  IN  Concat(RStrip(LStrip(<<hp, " ", mp, " ", sp>>)))

\* ------------------------------------------------------------------ state
VARIABLES
  group_data,     \* chat id -> user id -> person record (both maps partial)
  dict_order,     \* insertion order of the (chat, user) keys of group_data
  jobs,           \* pending one-shot jobs of the job queue
  next_job,       \* number of one-shot jobs scheduled so far
  now,            \* datetime.datetime.now(), in seconds
  handled,        \* the update or job dispatched last
  outbox,         \* Bot API calls made by the handler that ran last
  fault,          \* the exception the handler that ran last raised, or "none"
  closed_early,   \* history: timeout payloads whose activity was popped in time
  events,         \* number of updates the webhook has received
  recurring,      \* number of runs of the recurring jobs
  threads,        \* the job-queue thread and the webhook thread, when a
                  \* handler is followed statement by statement
  snapshot        \* history: group_data when the running handlers began

store == <<group_data, dict_order>>
queue == <<jobs, next_job>>
stepwise == <<threads, snapshot>>
vars == <<group_data, dict_order, jobs, next_job, now, handled, outbox, fault,
          closed_early, events, recurring, threads, snapshot>>

\* ------------------------------------------------------------ store access
HasUser(gd, c, u) == c \in DOMAIN gd /\ u \in DOMAIN gd[c]

Keys(gd) == { k \in Chats \X Users : HasUser(gd, k[1], k[2]) }

\* the record ensure_user creates
NewUser(name) ==
  [ name |-> name, activities |-> <<>>, daily_fines |-> 0,
    monthly_fines |-> 0, lang |-> "zh", work_start |-> <<>> ]

\* ensure_user storing a fresh record whether or not the person is known
ensure_user_overwrite(gd, c, u, name) ==
  LET users == IF c \in DOMAIN gd THEN gd[c] ELSE << >>
      users2 == [x \in DOMAIN users \cup {u} |->
                   IF x = u THEN NewUser(name) ELSE users[x]]
  IN  [x \in DOMAIN gd \cup {c} |-> IF x = c THEN users2 ELSE gd[x]]

\* group_data after ensure_user(chat_id, user_id, name)
ensure_user(gd, c, u, name) ==
  LET users == IF c \in DOMAIN gd THEN gd[c] ELSE << >>
      users2 == IF u \in DOMAIN users THEN users
                ELSE [x \in DOMAIN users \cup {u} |->
                        IF x = u THEN NewUser(name) ELSE users[x]]
  IN  [x \in DOMAIN gd \cup {c} |-> IF x = c THEN users2 ELSE gd[x]]

\* key order of the dicts after ensure_user
ensure_order(ord, gd, c, u) ==
  IF HasUser(gd, c, u) THEN ord ELSE Append(ord, <<c, u>>)

\* gd with field f of person (c, u) set to v; (c, u) must exist
SetField(gd, c, u, f, v) ==
  [gd EXCEPT ![c] = [@ EXCEPT ![u] = [@ EXCEPT ![f] = v]]]

\* what a reader of the store sees of a person, seen before or not
Person(gd, c, u) == IF HasUser(gd, c, u) THEN gd[c][u] ELSE NewUser("")
Daily(gd, c, u) == Person(gd, c, u).daily_fines
Monthly(gd, c, u) == Person(gd, c, u).monthly_fines
Stack(gd, c, u) == Person(gd, c, u).activities

\* keys of group_data (list(group_data.keys())), in insertion order
RECURSIVE ChatKeys(_)
ChatKeys(ord) ==
  IF ord = <<>> THEN <<>>
  ELSE LET rest == ChatKeys(SubSeq(ord, 1, Len(ord) - 1))
           c == ord[Len(ord)][1]
       IN  IF \E i \in 1..Len(rest) : rest[i] = c THEN rest
           ELSE Append(rest, c)

\* keys of group_data[c] in insertion order
UserKeys(ord, c) ==
  LET pairs == SelectSeq(ord, LAMBDA k : k[1] = c)
  IN  [i \in 1..Len(pairs) |-> pairs[i][2]]

\* what the dispatcher or the job queue hands to a handler
Handled(handler, c, u, data) ==
  [handler |-> handler, chat |-> c, user |-> u, data |-> data]

\* a thread that runs no handler
Idle ==
  [ pc |-> "idle", op |-> "", chat |-> 0, user |-> 0, act |-> "", amount |-> 0,
    tmp |-> 0, ci |-> 0, ui |-> 0, osize |-> 0, isize |-> 0, lines |-> <<>> ]

Init ==
  /\ threads = [t \in {"job", "hook"} |-> Idle]
  /\ snapshot = << >>
  /\ group_data = << >>
  /\ dict_order = <<>>
  /\ jobs = {}
  /\ next_job = 0
  /\ now = 0
  /\ handled = Handled("none", 0, 0, "")
  /\ outbox = <<>>
  /\ fault = "none"
  /\ closed_early = {}
  /\ events = 0
  /\ recurring = 0

\* ------------------------------------------------------------ Bot API calls
\* a text is the sequence of its lines
send_message(to, text) == [api |-> "send_message", to |-> to, text |-> text]
reply_text(c, text)    == [api |-> "reply_text", to |-> c, text |-> text]
answer(u, text)        == [api |-> "answer", to |-> u, text |-> text]
leave_chat(c)          == [api |-> "leave_chat", to |-> c, text |-> <<>>]

\* ------------------------------------------------------------------ commands
\* cmd_start: create the sender on first contact, reply with the menu
cmd_start(c, u) ==
  LET gd == ensure_user(group_data, c, u, full_name(u))
  IN  /\ handled' = Handled("cmd_start", c, u, "")
      /\ group_data' = gd
      /\ dict_order' = ensure_order(dict_order, group_data, c, u)
      /\ outbox' = << reply_text(c, <<NAMES.menu_title[gd[c][u].lang]>>) >>
      /\ fault' = "none"
      /\ UNCHANGED <<queue, now, closed_early>>

\* cmd_set_zh / cmd_set_en / cmd_set_km: store the language, then cmd_start
cmd_set_lang(c, u, lang) ==
  LET gd == SetField(ensure_user(group_data, c, u, full_name(u)),
                     c, u, "lang", lang)
  IN  /\ handled' = Handled("cmd_set_lang", c, u, lang)
      /\ group_data' = gd
      /\ dict_order' = ensure_order(dict_order, group_data, c, u)
      /\ outbox' = << reply_text(c, <<NAMES.menu_title[gd[c][u].lang]>>) >>
      /\ fault' = "none"
      /\ UNCHANGED <<queue, now, closed_early>>

\* ---------------------------------------------------------------- auto-leave
chat_title(c) == "T" \o str(c)

RECURSIVE AdminNotices(_, _, _)
AdminNotices(admins, c, adder) ==
  IF admins = {} THEN <<>>
  ELSE LET a == CHOOSE x \in admins : \A y \in admins : x <= y
       IN  << send_message(a, <<"Bot was added to " \o chat_title(c)
                               \o " by unauthorized user " \o full_name(adder)>>) >>
           \o AdminNotices(admins \ {a}, c, adder)

\* MemberCalls leaving whoever added the bot
RECURSIVE MemberCalls_any_adder(_, _, _, _)
MemberCalls_any_adder(members, i, c, adder) ==
  IF i > Len(members) THEN <<>>
  ELSE (IF members[i] = BotId
        THEN << send_message(c, <<"Only admins can add me. Leaving...">>),
                leave_chat(c) >> \o AdminNotices(ADMIN_USER_IDS, c, adder)
        ELSE <<>>)
       \o MemberCalls_any_adder(members, i + 1, c, adder)

\* the calls made for new_chat_members[i..]
RECURSIVE MemberCalls(_, _, _, _)
MemberCalls(members, i, c, adder) ==
  IF i > Len(members) THEN <<>>
  ELSE (IF members[i] = BotId /\ adder \notin ADMIN_USER_IDS
        THEN << send_message(c, <<"Only admins can add me. Leaving...">>),
                leave_chat(c) >> \o AdminNotices(ADMIN_USER_IDS, c, adder)
        ELSE <<>>)
       \o MemberCalls(members, i + 1, c, adder)

handle_new_chat_members(c, adder, members) ==
  /\ handled' = Handled("handle_new_chat_members", c, adder, "")
  /\ outbox' = MemberCalls(members, 1, c, adder)
  /\ fault' = "none"
  /\ UNCHANGED <<store, queue, now, closed_early>>

\* ------------------------------------------------------------ button presses
\* Scheduled with the warning delayed by the whole limit, like the timeout
Scheduled_warning_at_limit(c, u, act) ==
  LET limit == ACTIVITY_LIMITS[act].limit_min
  IN  { [id |-> next_job + 1, callback |-> "send_warning_job",
         due |-> now + limit * 60, context |-> <<c, u, act>>],
        [id |-> next_job + 2, callback |-> "timeout_job",
         due |-> now + limit * 60, context |-> <<c, u, act>>] }

\* the two run_once calls of a started activity
Scheduled(c, u, act) ==
  LET limit == ACTIVITY_LIMITS[act].limit_min
  IN  { [id |-> next_job + 1, callback |-> "send_warning_job",
         due |-> now + (limit * 60 - 60), context |-> <<c, u, act>>],
        [id |-> next_job + 2, callback |-> "timeout_job",
         due |-> now + limit * 60, context |-> <<c, u, act>>] }

\* push_activity refusing a kind the person already has open
push_activity_unless_open(gd, c, u, data, t) ==
  IF \E i \in 1..Len(gd[c][u].activities) : gd[c][u].activities[i].type = data
  THEN gd
  ELSE SetField(gd, c, u, "activities",
                Append(gd[c][u].activities, [type |-> data, start |-> t]))

\* user["activities"].append({"type": data, "start": now})
push_activity(gd, c, u, data, t) ==
  SetField(gd, c, u, "activities",
           Append(gd[c][u].activities, [type |-> data, start |-> t]))

\* pop_activity taking the oldest record instead of the newest
pop_activity_oldest(gd, c, u) ==
  SetField(gd, c, u, "activities", Tail(gd[c][u].activities))

\* user["activities"].pop() on a non-empty list
pop_activity(gd, c, u) ==
  SetField(gd, c, u, "activities",
           SubSeq(gd[c][u].activities, 1, Len(gd[c][u].activities) - 1))

\* back_text answering in the default language whatever the person chose
back_text_default_lang(user, t) ==
  IF user.activities = <<>> THEN NAMES.no_activity["zh"]
  ELSE LET last == user.activities[Len(user.activities)]
       IN  "Back from " \o last.type \o " (" \o format_td(t - last.start) \o ")"

\* the answer to "back"
back_text(user, t) ==
  IF user.activities = <<>> THEN NAMES.no_activity[user.lang]
  ELSE LET last == user.activities[Len(user.activities)]
       IN  "Back from " \o last.type \o " (" \o format_td(t - last.start) \o ")"

\* the timeout payload of an activity record, as scheduled when it was pushed
TimeoutOf(c, u, rec) ==
  <<c, u, rec.type, rec.start + ACTIVITY_LIMITS[rec.type].limit_min * 60>>

button_handler(c, u, data) ==
  LET gd == ensure_user(group_data, c, u, full_name(u))
      user == gd[c][u]
  IN  /\ handled' = Handled("button_handler", c, u, data)
      /\ dict_order' = ensure_order(dict_order, group_data, c, u)
      /\ fault' = "none"
      /\ now' = now
      /\ CASE data = "work" ->
                /\ group_data' = SetField(gd, c, u, "work_start", <<now>>)
                /\ outbox' = << answer(u, <<"Work started">>) >>
                /\ UNCHANGED <<queue, closed_early>>
           [] data = "off" ->
                /\ group_data' = SetField(gd, c, u, "work_start", <<>>)
                /\ outbox' = << answer(u, <<"Work ended">>) >>
                /\ UNCHANGED <<queue, closed_early>>
           [] data \in DOMAIN ACTIVITY_LIMITS ->
                /\ Len(user.activities) < MaxStack
                /\ next_job + 2 <= MaxJobs
                /\ group_data' = push_activity(gd, c, u, data, now)
                /\ outbox' = << answer(u, <<"Started " \o data>>) >>
                /\ jobs' = jobs \cup Scheduled(c, u, data)
                /\ next_job' = next_job + 2
                /\ UNCHANGED closed_early
           [] data = "back" /\ user.activities = <<>> ->
                /\ group_data' = gd
                /\ outbox' = << answer(u, <<back_text(user, now)>>) >>
                /\ UNCHANGED <<queue, closed_early>>
           [] data = "back" /\ user.activities # <<>> ->
                LET last == user.activities[Len(user.activities)]
                IN  /\ group_data' = pop_activity(gd, c, u)
                    /\ outbox' = << answer(u, <<back_text(user, now)>>) >>
                    /\ closed_early' =
                         IF now < TimeoutOf(c, u, last)[4]
                         THEN closed_early \cup {TimeoutOf(c, u, last)}
                         ELSE closed_early
                    /\ UNCHANGED queue
           [] OTHER ->
                /\ group_data' = gd
                /\ outbox' = <<>>
                /\ UNCHANGED <<queue, closed_early>>

\* ----------------------------------------------------------------------- jobs
\* send_warning_job: one notification, no store access
send_warning_job(j) ==
  LET chat_id == j.context[1]
      user_id == j.context[2]
      act == j.context[3]
  IN  /\ j \in jobs /\ j.callback = "send_warning_job" /\ j.due <= now
      /\ handled' = Handled("send_warning_job", chat_id, user_id, act)
      /\ jobs' = jobs \ {j}
      /\ outbox' = << send_message(chat_id, <<"User " \o str(user_id)
                          \o ", 1 minute left for " \o act \o "!">>) >>
      /\ fault' = "none"
      /\ UNCHANGED <<store, next_job, now, closed_early>>

\* group_data after the two += of a handler adding amount to person (c, u)
add_fine(gd, c, u, amount) ==
  LET user == gd[c][u]
      gd1 == SetField(gd, c, u, "daily_fines", user.daily_fines + amount)
  IN  SetField(gd1, c, u, "monthly_fines", user.monthly_fines + amount)

\* timeout_store looking the kind up on the person's stack when the job is
\* called instead of taking it from the job's context
timeout_store_current_kind(gd, chat_id, user_id, act) ==
  LET gd1 == ensure_user(gd, chat_id, user_id, str(user_id))
      open == gd1[chat_id][user_id].activities
  IN  IF open = <<>> THEN gd1
      ELSE add_fine(gd1, chat_id, user_id,
                    ACTIVITY_LIMITS[open[Len(open)].type].fine)

\* timeout_store closing the newest open activity along with the fine
timeout_store_closing(gd, chat_id, user_id, act) ==
  LET gd1 == add_fine(ensure_user(gd, chat_id, user_id, str(user_id)),
                      chat_id, user_id, ACTIVITY_LIMITS[act].fine)
      open == gd1[chat_id][user_id].activities
  IN  IF open = <<>> THEN gd1
      ELSE SetField(gd1, chat_id, user_id, "activities",
                    SubSeq(open, 1, Len(open) - 1))

\* timeout_store fining only a person who still has the activity open
timeout_store_open_only(gd, chat_id, user_id, act) ==
  LET gd1 == ensure_user(gd, chat_id, user_id, str(user_id))
      open == gd1[chat_id][user_id].activities
  IN  IF \E i \in 1..Len(open) : open[i].type = act
      THEN add_fine(gd1, chat_id, user_id, ACTIVITY_LIMITS[act].fine)
      ELSE gd1

\* timeout_store crediting the daily total only
timeout_store_daily_only(gd, chat_id, user_id, act) ==
  LET gd1 == ensure_user(gd, chat_id, user_id, str(user_id))
  IN  SetField(gd1, chat_id, user_id, "daily_fines",
               gd1[chat_id][user_id].daily_fines + ACTIVITY_LIMITS[act].fine)

\* group_data after timeout_job ran with context (chat_id, user_id, act)
timeout_store(gd, chat_id, user_id, act) ==
  add_fine(ensure_user(gd, chat_id, user_id, str(user_id)),
           chat_id, user_id, ACTIVITY_LIMITS[act].fine)

timeout_job(j) ==
  LET chat_id == j.context[1]
      user_id == j.context[2]
      act == j.context[3]
      fine == ACTIVITY_LIMITS[act].fine
  IN  /\ j \in jobs /\ j.callback = "timeout_job" /\ j.due <= now
      /\ handled' = Handled("timeout_job", chat_id, user_id, act)
      /\ jobs' = jobs \ {j}
      /\ group_data' = timeout_store(group_data, chat_id, user_id, act)
      /\ dict_order' = ensure_order(dict_order, group_data, chat_id, user_id)
      /\ outbox' = << send_message(chat_id, <<"User " \o str(user_id)
                          \o " timeout on " \o act \o "! Fine " \o str(fine)>>) >>
      /\ fault' = "none"
      /\ UNCHANGED <<next_job, now, closed_early>>

\* daily_reset_store clearing the monthly total along with the daily one
daily_reset_store_both(gd) ==
  [c \in DOMAIN gd |->
     [u \in DOMAIN gd[c] |->
        [gd[c][u] EXCEPT !.daily_fines = 0, !.monthly_fines = 0]]]

\* group_data after the loops of daily_reset_job
daily_reset_store(gd) ==
  [c \in DOMAIN gd |->
     [u \in DOMAIN gd[c] |-> [gd[c][u] EXCEPT !.daily_fines = 0]]]

\* the loops run first; list(group_data.keys())[0] raises IndexError on an
\* empty store
daily_reset_job ==
  /\ handled' = Handled("daily_reset_job", 0, 0, "")
  /\ group_data' = daily_reset_store(group_data)
  /\ IF ChatKeys(dict_order) = <<>>
     THEN outbox' = <<>> /\ fault' = "IndexError"
     ELSE /\ outbox' = << send_message(ChatKeys(dict_order)[1],
                                       <<"Daily reset complete.">>) >>
          /\ fault' = "none"
  /\ UNCHANGED <<dict_order, queue, now, closed_early>>

\* report_lines reading the totals after they were zeroed
report_lines_zeroed(gd, ord, c, field) ==
  LET keys == UserKeys(ord, c)
  IN  [i \in 1..Len(keys) |-> gd[c][keys[i]].name \o ": " \o str(0)]

\* the report lines built for the users of one chat, a line per user
report_lines(gd, ord, c, field) ==
  LET keys == UserKeys(ord, c)
  IN  [i \in 1..Len(keys) |->
         gd[c][keys[i]].name \o ": " \o str(gd[c][keys[i]][field])]

\* monthly_report_store clearing the daily total along with the monthly one
monthly_report_store_both(gd) ==
  [c \in DOMAIN gd |->
     [u \in DOMAIN gd[c] |->
        [gd[c][u] EXCEPT !.monthly_fines = 0, !.daily_fines = 0]]]

\* group_data after the loops of monthly_report_job
monthly_report_store(gd) ==
  [c \in DOMAIN gd |->
     [u \in DOMAIN gd[c] |-> [gd[c][u] EXCEPT !.monthly_fines = 0]]]

monthly_report_job ==
  LET chats == ChatKeys(dict_order)
  IN  /\ handled' = Handled("monthly_report_job", 0, 0, "")
      /\ outbox' = [i \in 1..Len(chats) |->
                      send_message(chats[i], <<"Monthly Report:">> \o
                        report_lines(group_data, dict_order, chats[i],
                                     "monthly_fines"))]
      /\ group_data' = monthly_report_store(group_data)
      /\ fault' = "none"
      /\ UNCHANGED <<dict_order, queue, now, closed_early>>

\* ------------------------------------------------------------- admin commands
\* is_admin letting every identity through
is_admin_anyone(u) == TRUE

\* update.effective_user.id in ADMIN_USER_IDS
is_admin(u) == u \in ADMIN_USER_IDS

cmd_report(c, u) ==
  /\ handled' = Handled("cmd_report", c, u, "")
  /\ IF ~ is_admin(u)
     THEN outbox' = <<>>
     ELSE outbox' = << reply_text(c, <<"Daily Report:">> \o
                        (IF c \in DOMAIN group_data
                         THEN report_lines(group_data, dict_order, c,
                                           "daily_fines")
                         ELSE <<>>)) >>
  /\ fault' = "none"
  /\ UNCHANGED <<store, queue, now, closed_early>>

\* fine_store crediting the daily total only
fine_store_daily_only(gd, c, uid, amount) ==
  LET gd1 == ensure_user(gd, c, uid, str(uid))
  IN  SetField(gd1, c, uid, "daily_fines", gd1[c][uid].daily_fines + amount)

\* group_data after cmd_fine's ensure_user and two +=
fine_store(gd, c, uid, amount) ==
  add_fine(ensure_user(gd, c, uid, str(uid)), c, uid, amount)

cmd_fine(c, u, args) ==
  /\ handled' = Handled("cmd_fine", c, u, "")
  /\ UNCHANGED <<queue, now, closed_early>>
  /\ IF ~ is_admin(u)
     THEN /\ outbox' = <<>> /\ fault' = "none"
          /\ UNCHANGED store
     ELSE IF Len(args) < 2
     THEN /\ outbox' = << reply_text(c, <<"Usage: /fine user_id amount">>) >>
          /\ fault' = "none"
          /\ UNCHANGED store
     ELSE IF ~ (IntOk(args[1]) /\ IntOk(args[2]))
     THEN /\ outbox' = <<>> /\ fault' = "ValueError"
          /\ UNCHANGED store
     ELSE LET uid == int(args[1])
              amount == int(args[2])
          IN  /\ Daily(group_data, c, uid) + amount \in -MaxTotal..MaxTotal
              /\ Monthly(group_data, c, uid) + amount \in -MaxTotal..MaxTotal
              /\ group_data' = fine_store(group_data, c, uid, amount)
              /\ dict_order' = ensure_order(dict_order, group_data, c, uid)
              /\ outbox' = << reply_text(c, <<"Fine " \o str(amount)
                                    \o " added to " \o str(uid)>>) >>
              /\ fault' = "none"

\* ---------------------------------------------------------------------- clock
\* the earliest pending due time; the clock never runs past a due job
NextDue == IF jobs = {} THEN MaxTime
           ELSE (CHOOSE j \in jobs : \A k \in jobs : j.due <= k.due).due

Min(a, b) == IF a <= b THEN a ELSE b

Tick ==
  /\ now < Min(NextDue, MaxTime)
  /\ now' = Min(now + TickStep, Min(NextDue, MaxTime))
  /\ \A t \in DOMAIN threads : threads[t].pc = "idle"
  /\ UNCHANGED <<store, queue, handled, outbox, fault, closed_early, events,
                 recurring, stepwise>>

\* webhook: one update is parsed and dispatched to its handler
webhook(handler) ==
  /\ events < MaxEvents
  /\ events' = events + 1
  /\ handler
  /\ UNCHANGED <<recurring, stepwise>>

\* job queue: a one-shot job's callback runs
run_once(callback) ==
  /\ callback
  /\ UNCHANGED <<events, recurring, stepwise>>

\* job queue: a run_daily / run_monthly job's callback runs
run_recurring(callback) ==
  /\ recurring < MaxRecurring
  /\ recurring' = recurring + 1
  /\ callback
  /\ UNCHANGED <<events, stepwise>>

Next ==
  \/ \E c \in Chats, u \in Users : webhook(cmd_start(c, u))
  \/ \E c \in Chats, u \in Users, lang \in Langs :
        webhook(cmd_set_lang(c, u, lang))
  \/ \E c \in Chats, u \in Users, m \in MemberLists :
        webhook(handle_new_chat_members(c, u, m))
  \/ \E c \in Chats, u \in Users, d \in ButtonData :
        webhook(button_handler(c, u, d))
  \/ \E c \in Chats, u \in Users : webhook(cmd_report(c, u))
  \/ \E c \in Chats, u \in Users, args \in ArgLists :
        webhook(cmd_fine(c, u, args))
  \/ \E j \in jobs : run_once(send_warning_job(j))
  \/ \E j \in jobs : run_once(timeout_job(j))
  \/ run_recurring(daily_reset_job)
  \/ run_recurring(monthly_report_job)
  \/ Tick

Spec == Init /\ [][Next]_vars

\* The callback-query handler alone with the jobs it schedules: longer runs
\* of button presses in one group, no commands and no recurring jobs.
press(handler) ==
  /\ events < MaxPresses
  /\ events' = events + 1
  /\ handler
  /\ UNCHANGED <<recurring, stepwise>>

NextButtons ==
  \/ \E c \in {1}, u \in Users, d \in ButtonData :
        press(button_handler(c, u, d))
  \/ \E j \in jobs : run_once(send_warning_job(j))
  \/ \E j \in jobs : run_once(timeout_job(j))
  \/ Tick

SpecButtons == Init /\ [][NextButtons]_vars

\* The job queue's scheduler thread keeps running: time passes, and a job
\* that is due is called.
FairButtons ==
  /\ SpecButtons
  /\ WF_vars(Tick)
  /\ WF_vars(\E j \in jobs : run_once(send_warning_job(j)))
  /\ WF_vars(\E j \in jobs : run_once(timeout_job(j)))

\* One group on its own: every update handler and the one-shot jobs in chat 1,
\* without the recurring jobs.
NextGroup ==
  \/ \E u \in Users : webhook(cmd_start(1, u))
  \/ \E u \in Users, lang \in Langs : webhook(cmd_set_lang(1, u, lang))
  \/ \E u \in Users, m \in MemberLists :
        webhook(handle_new_chat_members(1, u, m))
  \/ \E u \in Users, d \in ButtonData : webhook(button_handler(1, u, d))
  \/ \E u \in Users : webhook(cmd_report(1, u))
  \/ \E u \in Users, args \in ArgLists : webhook(cmd_fine(1, u, args))
  \/ \E j \in jobs : run_once(send_warning_job(j))
  \/ \E j \in jobs : run_once(timeout_job(j))
  \/ Tick

SpecGroup == Init /\ [][NextGroup]_vars

\* Fines and reports across the groups: the commands and the recurring jobs
\* in every chat, with the work and smoke buttons to fill the other fields;
\* the runs end before a smoke timer is due.
NextReports ==
  \/ \E c \in Chats, u \in Users : webhook(cmd_start(c, u))
  \/ \E c \in Chats, u \in Users : webhook(cmd_set_lang(c, u, "en"))
  \/ \E c \in Chats, u \in Users, d \in {"work", "smoke"} :
        webhook(button_handler(c, u, d))
  \/ \E c \in Chats, u \in Users : webhook(cmd_report(c, u))
  \/ \E c \in Chats, u \in Users, args \in ArgLists :
        webhook(cmd_fine(c, u, args))
  \/ run_recurring(daily_reset_job)
  \/ run_recurring(monthly_report_job)
  \/ Tick

SpecReports == Init /\ [][NextReports]_vars

\* Fines from every source across the groups: smoke breaks and their timers,
\* "back", a language change, the fine command with two arguments and the
\* recurring jobs.
NextFines ==
  \/ \E c \in Chats, u \in Users, d \in {"smoke", "back"} :
        webhook(button_handler(c, u, d))
  \/ \E c \in Chats, u \in Users : webhook(cmd_set_lang(c, u, "en"))
  \/ \E c \in Chats, u \in Users, args \in ArgListsOfLen(2) :
        webhook(cmd_fine(c, u, args))
  \/ \E j \in jobs : run_once(send_warning_job(j))
  \/ \E j \in jobs : run_once(timeout_job(j))
  \/ run_recurring(daily_reset_job)
  \/ run_recurring(monthly_report_job)
  \/ Tick

SpecFines == Init /\ [][NextFines]_vars

\* ------------------------------------------ handlers, statement by statement
\* job_queue.start() runs the job callbacks on the job queue's own thread,
\* dispatcher.process_update runs the handlers on the web server's; no lock
\* is taken anywhere. Here timeout_job, daily_reset_job and
\* monthly_report_job on one thread and cmd_fine on the other advance one
\* store access at a time (each ensure_user call is kept in one step).
Busy(t) == threads[t].pc \notin {"idle", "done"}
AllIdle == \A t \in DOMAIN threads : threads[t].pc = "idle"
Other(t) == IF t = "job" THEN "hook" ELSE "job"

\* thread t moves on as th
Goto(t, th) == threads' = [threads EXCEPT ![t] = th]

\* a handler begins on thread t
Begin(t, th) ==
  /\ \A x \in DOMAIN threads : threads[x].pc # "done"
  /\ threads[t].pc = "idle"
  /\ Goto(t, th)
  /\ snapshot' = IF Busy(Other(t)) THEN snapshot ELSE group_data

\* cmd_fine up to its two int() calls, for an admin and well-formed arguments
begin_cmd_fine(c, u, args) ==
  /\ is_admin(u) /\ Len(args) >= 2 /\ IntOk(args[1]) /\ IntOk(args[2])
  /\ events < MaxEvents
  /\ events' = events + 1
  /\ Daily(group_data, c, int(args[1])) + int(args[2]) \in -MaxTotal..MaxTotal
  /\ Monthly(group_data, c, int(args[1])) + int(args[2])
       \in -MaxTotal..MaxTotal
  /\ Begin("hook", [Idle EXCEPT !.pc = "ensure", !.op = "cmd_fine",
                                !.chat = c, !.user = int(args[1]),
                                !.amount = int(args[2])])
  /\ handled' = Handled("cmd_fine", c, u, "")
  /\ UNCHANGED <<store, queue, now, outbox, fault, closed_early, recurring>>

\* timeout_job up to the lookup of its fine
begin_timeout_job(j) ==
  /\ j \in jobs /\ j.callback = "timeout_job" /\ j.due <= now
  /\ jobs' = jobs \ {j}
  /\ Begin("job", [Idle EXCEPT !.pc = "ensure", !.op = "timeout_job",
                               !.chat = j.context[1], !.user = j.context[2],
                               !.act = j.context[3],
                               !.amount = ACTIVITY_LIMITS[j.context[3]].fine])
  /\ handled' = Handled("timeout_job", j.context[1], j.context[2], j.context[3])
  /\ UNCHANGED <<store, next_job, now, outbox, fault, closed_early, events,
                 recurring>>

\* daily_reset_job / monthly_report_job up to the first next() of the outer loop
begin_recurring(job) ==
  /\ recurring < MaxRecurring
  /\ recurring' = recurring + 1
  /\ Begin("job", [Idle EXCEPT !.pc = "outer", !.op = job,
                               !.osize = Len(ChatKeys(dict_order))])
  /\ handled' = Handled(job, 0, 0, "")
  /\ UNCHANGED <<store, queue, now, outbox, fault, closed_early, events>>

\* user = ensure_user(...)
step_ensure(t) ==
  LET th == threads[t]
  IN  /\ th.pc = "ensure"
      /\ group_data' = ensure_user(group_data, th.chat, th.user, str(th.user))
      /\ dict_order' = ensure_order(dict_order, group_data, th.chat, th.user)
      /\ Goto(t, [th EXCEPT !.pc = "read_daily"])
      /\ UNCHANGED <<queue, now, handled, outbox, fault, closed_early, events,
                     recurring, snapshot>>

\* the load of user[f] in user[f] += amount
step_read(t) ==
  LET th == threads[t]
      f == IF th.pc = "read_daily" THEN "daily_fines" ELSE "monthly_fines"
  IN  /\ th.pc \in {"read_daily", "read_monthly"}
      /\ Goto(t, [th EXCEPT !.tmp = group_data[th.chat][th.user][f],
                           !.pc = IF th.pc = "read_daily" THEN "write_daily"
                                  ELSE "write_monthly"])
      /\ UNCHANGED <<store, queue, now, handled, outbox, fault, closed_early,
                     events, recurring, snapshot>>

\* the store of user[f] in user[f] += amount
step_write(t) ==
  LET th == threads[t]
      f == IF th.pc = "write_daily" THEN "daily_fines" ELSE "monthly_fines"
  IN  /\ th.pc \in {"write_daily", "write_monthly"}
      /\ group_data' = SetField(group_data, th.chat, th.user, f,
                                th.tmp + th.amount)
      /\ Goto(t, [th EXCEPT !.pc = IF th.pc = "write_daily" THEN "read_monthly"
                                  ELSE "send"])
      /\ UNCHANGED <<dict_order, queue, now, handled, outbox, fault,
                     closed_early, events, recurring, snapshot>>

\* the closing send_message / reply_text of a handler
step_send(t) ==
  LET th == threads[t]
  IN  /\ th.pc = "send"
      /\ Goto(t, [th EXCEPT !.pc = "done"])
      /\ CASE th.op = "cmd_fine" ->
                /\ outbox' = << reply_text(th.chat, <<"Fine " \o str(th.amount)
                                      \o " added to " \o str(th.user)>>) >>
                /\ fault' = "none"
           [] th.op = "timeout_job" ->
                /\ outbox' = << send_message(th.chat, <<"User " \o str(th.user)
                                    \o " timeout on " \o th.act \o "! Fine "
                                    \o str(th.amount)>>) >>
                /\ fault' = "none"
           [] th.op = "daily_reset_job" ->
                IF ChatKeys(dict_order) = <<>>
                THEN outbox' = <<>> /\ fault' = "IndexError"
                ELSE /\ outbox' = << send_message(ChatKeys(dict_order)[1],
                                                  <<"Daily reset complete.">>) >>
                     /\ fault' = "none"
      /\ UNCHANGED <<store, queue, now, handled, closed_early, events,
                     recurring, snapshot>>

\* the dict iterators raise when their dict changed size since they began
Raise(t, error) ==
  /\ Goto(t, [threads[t] EXCEPT !.pc = "done"])
  /\ fault' = error

\* next() of "for chat_id, users in group_data.items()"
step_outer(t) ==
  LET th == threads[t]
      chats == ChatKeys(dict_order)
  IN  /\ th.pc = "outer"
      /\ UNCHANGED <<store, queue, now, handled, outbox, closed_early, events,
                     recurring, snapshot>>
      /\ IF Len(chats) # th.osize
         THEN Raise(t, "RuntimeError")
         ELSE /\ fault' = fault
              /\ IF th.ci < th.osize
                 THEN Goto(t, [th EXCEPT !.pc = "inner", !.ci = th.ci + 1,
                         !.ui = 0, !.lines = <<>>,
                         !.isize = Len(UserKeys(dict_order, chats[th.ci + 1]))])
                 ELSE Goto(t, [th EXCEPT !.pc = IF th.op = "daily_reset_job"
                                               THEN "send" ELSE "done"])

\* next() of "for u in users.values()" and, up to the first store, its body
step_inner(t) ==
  LET th == threads[t]
      c == ChatKeys(dict_order)[th.ci]
      users == UserKeys(dict_order, c)
  IN  /\ th.pc = "inner"
      /\ UNCHANGED <<dict_order, queue, now, handled, closed_early, events,
                     recurring, snapshot>>
      /\ IF Len(users) # th.isize
         THEN Raise(t, "RuntimeError") /\ UNCHANGED <<group_data, outbox>>
         ELSE /\ fault' = fault
              /\ IF th.ui < th.isize
                 THEN IF th.op = "daily_reset_job"
                      THEN /\ group_data' = SetField(group_data, c,
                                               users[th.ui + 1], "daily_fines", 0)
                           /\ Goto(t, [th EXCEPT !.ui = th.ui + 1])
                           /\ UNCHANGED outbox
                      ELSE /\ Goto(t, [th EXCEPT !.pc = "zero", !.lines =
                                Append(th.lines,
                                  group_data[c][users[th.ui + 1]].name \o ": " \o
                                  str(group_data[c][users[th.ui + 1]].monthly_fines))])
                           /\ UNCHANGED <<group_data, outbox>>
                 ELSE /\ Goto(t, [th EXCEPT !.pc = "outer"])
                      /\ UNCHANGED group_data
                      /\ outbox' = IF th.op = "daily_reset_job" THEN outbox
                                   ELSE << send_message(c,
                                             <<"Monthly Report:">> \o th.lines) >>

\* u["monthly_fines"] = 0 in monthly_report_job
step_zero(t) ==
  LET th == threads[t]
      c == ChatKeys(dict_order)[th.ci]
      u == UserKeys(dict_order, c)[th.ui + 1]
  IN  /\ th.pc = "zero"
      /\ group_data' = SetField(group_data, c, u, "monthly_fines", 0)
      /\ Goto(t, [th EXCEPT !.pc = "inner", !.ui = th.ui + 1])
      /\ UNCHANGED <<dict_order, queue, now, handled, outbox, fault,
                     closed_early, events, recurring, snapshot>>

\* both threads are back in their loops, waiting for work
Settle ==
  /\ \A t \in DOMAIN threads : ~ Busy(t)
  /\ \E t \in DOMAIN threads : threads[t].pc = "done"
  /\ threads' = [t \in DOMAIN threads |-> Idle]
  /\ snapshot' = << >>
  /\ UNCHANGED <<store, queue, now, handled, outbox, fault, closed_early,
                 events, recurring>>

NextThreads ==
  \/ \E c \in Chats, u \in Users, d \in DOMAIN ACTIVITY_LIMITS :
        AllIdle /\ webhook(button_handler(c, u, d))
  \/ \E j \in jobs : AllIdle /\ run_once(send_warning_job(j))
  \/ Tick
  \/ \E c \in Chats, u \in Users, args \in ArgLists : begin_cmd_fine(c, u, args)
  \/ \E j \in jobs : begin_timeout_job(j)
  \/ \E job \in {"daily_reset_job", "monthly_report_job"} : begin_recurring(job)
  \/ \E t \in DOMAIN threads : step_ensure(t)
  \/ \E t \in DOMAIN threads : step_read(t)
  \/ \E t \in DOMAIN threads : step_write(t)
  \/ \E t \in DOMAIN threads : step_send(t)
  \/ \E t \in DOMAIN threads : step_outer(t)
  \/ \E t \in DOMAIN threads : step_inner(t)
  \/ \E t \in DOMAIN threads : step_zero(t)
  \/ Settle

SpecThreads == Init /\ [][NextThreads]_vars

\* ======================================================================
\* Properties
\* ======================================================================
\* the one-shot jobs a step runs: run_once removes a job when it calls it
Fired(j) == j \in jobs /\ j \notin jobs'

\* the fine amounts as documented: 10 for eat, toilet and smoke, 0 for meeting
DocumentedFine(kind) == IF kind = "meeting" THEN 0 ELSE 10

\* C1: every firing of a timeout job adds exactly the documented fine of its
\* kind, which is never negative, to both the daily and the monthly total of
\* the person of its payload, and uses the job up: it is the only job taken
\* from the queue and no job with its identity stays behind, so one
\* scheduled timeout yields one increment.
C1_TimeoutAddsFineOnce ==
  [][\A j \in jobs :
       (Fired(j) /\ j.callback = "timeout_job") =>
         LET c == j.context[1]
             u == j.context[2]
             fine == DocumentedFine(j.context[3])
         IN  /\ fine >= 0
             /\ Daily(group_data', c, u) = Daily(group_data, c, u) + fine
             /\ Monthly(group_data', c, u) = Monthly(group_data, c, u) + fine
             /\ jobs' = jobs \ {j}
             /\ \A k \in jobs' : k.id # j.id
    ]_vars

\* C1 witness: a smoke timeout has fired for a person who already carried an
\* admin fine of 20, leaving 30 in both totals.
C1_Witness ==
  /\ handled.handler = "timeout_job" /\ handled.data = "smoke"
  /\ Daily(group_data, handled.chat, handled.user) = 30
  /\ Monthly(group_data, handled.chat, handled.user) = 30

\* the webhook has just dispatched this update
Dispatched(handler, c, u, data) ==
  events' = events + 1 /\ handled' = Handled(handler, c, u, data)

\* the job queue has just run this recurring job
Ran(job) == recurring' = recurring + 1 /\ handled'.handler = job

\* C2: when the only activity ever started is closed by "back" before its
\* limit has elapsed, the back leaves the stack empty and the totals as they
\* were, and no later timeout raises the person's totals on its account.
C2_NoFineAfterTimelyBack ==
  [][/\ \A c \in Chats, u \in Users :
          ( /\ Dispatched("button_handler", c, u, "back")
            /\ next_job = 2
            /\ Len(Stack(group_data, c, u)) = 1
            /\ now < TimeoutOf(c, u, Stack(group_data, c, u)[1])[4] )
          => /\ Stack(group_data', c, u) = <<>>
             /\ Daily(group_data', c, u) = Daily(group_data, c, u)
             /\ Monthly(group_data', c, u) = Monthly(group_data, c, u)
     /\ \A j \in jobs :
          ( /\ Fired(j) /\ j.callback = "timeout_job"
            /\ next_job = 2
            /\ <<j.context[1], j.context[2], j.context[3], j.due>>
                 \in closed_early )
          => /\ Daily(group_data', j.context[1], j.context[2])
                  = Daily(group_data, j.context[1], j.context[2])
             /\ Monthly(group_data', j.context[1], j.context[2])
                  = Monthly(group_data, j.context[1], j.context[2])
    ]_vars

\* C3: every total is a non-negative integer, and a step that lowers a
\* daily total is a run of the daily reset, a step that lowers a monthly
\* total a run of the monthly report, each leaving the total at zero.
C3_TotalsNonNegativeMonotone ==
  [][\A c \in Chats, u \in Users :
       /\ Daily(group_data', c, u) \in Nat
       /\ Monthly(group_data', c, u) \in Nat
       /\ Daily(group_data', c, u) < Daily(group_data, c, u)
            => Ran("daily_reset_job") /\ Daily(group_data', c, u) = 0
       /\ Monthly(group_data', c, u) < Monthly(group_data, c, u)
            => Ran("monthly_report_job") /\ Monthly(group_data', c, u) = 0
    ]_vars

\* group_data after the handler thread th ran, run alone from gd
Effect(th, gd) ==
  CASE th.op = "cmd_fine" -> fine_store(gd, th.chat, th.user, th.amount)
    [] th.op = "timeout_job" -> timeout_store(gd, th.chat, th.user, th.act)
    [] th.op = "daily_reset_job" -> daily_reset_store(gd)
    [] th.op = "monthly_report_job" -> monthly_report_store(gd)
    [] OTHER -> gd

Totals(gd) ==
  [c \in DOMAIN gd |->
     [u \in DOMAIN gd[c] |->
        <<gd[c][u].daily_fines, gd[c][u].monthly_fines>>]]

\* C4: when a job callback on the job-queue thread and cmd_fine on the
\* webhook thread have both run to their end, the totals of every person
\* are those of running the two handlers one after the other, in one order
\* or the other, from the store they began with.
C4_Linearizable ==
  ( /\ \A t \in DOMAIN threads : ~ Busy(t)
    /\ \E t \in DOMAIN threads : threads[t].pc = "done" )
  => Totals(group_data) \in
       { Totals(Effect(threads["job"], Effect(threads["hook"], snapshot))),
         Totals(Effect(threads["hook"], Effect(threads["job"], snapshot))) }

\* C5: a run of the daily reset leaves the daily total of every person of
\* every group at zero and keeps the set of persons and every person's
\* monthly total, activity stack, work-session start and language.
C5_DailyResetFrame ==
  [][Ran("daily_reset_job") =>
       /\ DOMAIN group_data' = DOMAIN group_data
       /\ \A c \in DOMAIN group_data :
            /\ DOMAIN group_data'[c] = DOMAIN group_data[c]
            /\ \A u \in DOMAIN group_data[c] :
                 /\ group_data'[c][u].daily_fines = 0
                 /\ group_data'[c][u].monthly_fines
                      = group_data[c][u].monthly_fines
                 /\ group_data'[c][u].activities = group_data[c][u].activities
                 /\ group_data'[c][u].work_start = group_data[c][u].work_start
                 /\ group_data'[c][u].lang = group_data[c][u].lang
    ]_vars

\* C5 witness: the daily reset has run over two groups, each holding a
\* person whose monthly total is still 20.
C5_Witness ==
  /\ handled.handler = "daily_reset_job"
  /\ \A c \in Chats :
       \E u \in Users : /\ HasUser(group_data, c, u)
                        /\ group_data[c][u].daily_fines = 0
                        /\ group_data[c][u].monthly_fines = 20

\* C6: a run of the monthly report leaves every monthly total at zero and
\* every daily total unchanged, sends exactly one report to each group and
\* nothing else, and the report of a group holds one line for each of its
\* persons, giving the monthly total the person had before the run.
C6_MonthlyReport ==
  [][Ran("monthly_report_job") =>
       /\ DOMAIN group_data' = DOMAIN group_data
       /\ Len(outbox') = Cardinality(DOMAIN group_data)
       /\ \A c \in DOMAIN group_data :
            /\ DOMAIN group_data'[c] = DOMAIN group_data[c]
            /\ \A u \in DOMAIN group_data[c] :
                 /\ group_data'[c][u].monthly_fines = 0
                 /\ group_data'[c][u].daily_fines
                      = group_data[c][u].daily_fines
            /\ \E i \in 1..Len(outbox') :
                 /\ outbox'[i].api = "send_message" /\ outbox'[i].to = c
                 /\ \A k \in 1..Len(outbox') : outbox'[k].to = c => k = i
                 /\ Len(outbox'[i].text) = 1 + Cardinality(DOMAIN group_data[c])
                 /\ \A u \in DOMAIN group_data[c] :
                      \E n \in 2..Len(outbox'[i].text) :
                        outbox'[i].text[n] =
                          group_data[c][u].name \o ": "
                            \o ToString(group_data[c][u].monthly_fines)
    ]_vars

\* C6 witness: the monthly report has run over two groups; the report of
\* one of them shows a total of 20, a person still carries a daily total.
C6_Witness ==
  /\ handled.handler = "monthly_report_job"
  /\ Len(outbox) = 2
  /\ \E i \in 1..Len(outbox) : outbox[i].text = <<"Monthly Report:", "1: 20">>
  /\ \E c \in Chats, u \in Users : Daily(group_data, c, u) = 20

\* C7: a "back" received while the person's stack is empty is answered with
\* the "no activity" notice in the person's language, and leaves the
\* person's totals and work-session start as they were and the stack empty.
C7_BackOnEmptyStack ==
  [][\A c \in Chats, u \in Users :
       ( /\ Dispatched("button_handler", c, u, "back")
         /\ Stack(group_data, c, u) = <<>> )
       => /\ outbox' = << answer(u,
                 <<NAMES.no_activity[Person(group_data, c, u).lang]>>) >>
          /\ fault' = "none"
          /\ Daily(group_data', c, u) = Daily(group_data, c, u)
          /\ Monthly(group_data', c, u) = Monthly(group_data, c, u)
          /\ Person(group_data', c, u).work_start
               = Person(group_data, c, u).work_start
          /\ Stack(group_data', c, u) = <<>>
    ]_vars

\* C7 witness: a person who chose English has pressed "back" with nothing
\* open and got the English notice.
C7_Witness ==
  /\ handled.handler = "button_handler" /\ handled.data = "back"
  /\ Person(group_data, handled.chat, handled.user).lang = "en"
  /\ outbox = << answer(handled.user, <<"No activity running.">>) >>

\* C8: the stack is last-in first-out. A "back" on a non-empty stack takes
\* off exactly the record pushed last, leaves the older records in place and
\* in order, and its answer names the kind of the record taken off; starting
\* an activity puts one record of that kind on top of the records already
\* there, so a start followed at once by "back" restores the stack.
C8_StackIsLifo ==
  [][\A c \in Chats, u \in Users :
       LET st == Stack(group_data, c, u)
           n == Len(st)
       IN  /\ (Dispatched("button_handler", c, u, "back") /\ n > 0)
                => /\ Stack(group_data', c, u) = SubSeq(st, 1, n - 1)
                   /\ outbox' = << answer(u, <<"Back from " \o st[n].type
                          \o " (" \o format_td(now - st[n].start) \o ")">>) >>
           /\ \A k \in {"eat", "toilet", "smoke", "meeting"} :
                Dispatched("button_handler", c, u, k)
                  => Stack(group_data', c, u)
                       = Append(st, [type |-> k, start |-> now])
    ]_vars

\* C8 witness: with eat opened first and smoke second, "back" nine minutes
\* later has closed smoke and left eat open.
C8_Witness ==
  /\ handled.handler = "button_handler" /\ handled.data = "back"
  /\ Stack(group_data, handled.chat, handled.user)
       = << [type |-> "eat", start |-> 0] >>
  /\ outbox = << answer(handled.user, <<"Back from smoke (9m)">>) >>

\* C9: a fine or report command from an identity outside the admin set
\* leaves the whole store, key order and job queue as they were, makes no
\* Bot API call and raises nothing.
C9_NonAdminNoEffect ==
  [][\A c \in Chats, u \in Users \ ADMIN_USER_IDS :
       (Dispatched("cmd_fine", c, u, "") \/ Dispatched("cmd_report", c, u, ""))
       => /\ group_data' = group_data
          /\ dict_order' = dict_order
          /\ jobs' = jobs /\ next_job' = next_job
          /\ outbox' = <<>>
          /\ fault' = "none"
    ]_vars

\* C9 witness: an identity outside the admin set has sent the fine command
\* to a store that already holds a person.
C9_Witness ==
  /\ handled.handler = "cmd_fine"
  /\ handled.user \notin ADMIN_USER_IDS
  /\ DOMAIN group_data # {}

\* the integers the argument strings of the fine command stand for
ArgValue(t) ==
  CASE t = <<"1">> -> 1 [] t = <<"7">> -> 7
    [] t = <<"2", "0">> -> 20 [] t = <<"-", "2", "0">> -> 0 - 20

\* C10: a fine command from an admin naming a person and an amount adds the
\* amount to both totals of that person in that group; a person never seen
\* there is first created with zero totals, an empty stack, no work session
\* and language zh, so both totals equal the amount afterwards.
C10_AdminFineAdds ==
  [][\A c \in Chats, u \in ADMIN_USER_IDS,
        a1 \in {<<"1">>, <<"7">>}, a2 \in {<<"2", "0">>, <<"-", "2", "0">>} :
       Dispatched("cmd_fine", c, u, "") /\ webhook(cmd_fine(c, u, <<a1, a2>>)) =>
         LET uid == ArgValue(a1)
             amount == ArgValue(a2)
         IN  /\ Daily(group_data', c, uid) = Daily(group_data, c, uid) + amount
             /\ Monthly(group_data', c, uid)
                  = Monthly(group_data, c, uid) + amount
             /\ HasUser(group_data', c, uid)
             /\ ~ HasUser(group_data, c, uid) =>
                  /\ group_data'[c][uid].daily_fines = amount
                  /\ group_data'[c][uid].monthly_fines = amount
                  /\ group_data'[c][uid].activities = <<>>
                  /\ group_data'[c][uid].work_start = <<>>
                  /\ group_data'[c][uid].lang = "zh"
    ]_vars

\* C10 witness: an admin has fined by 20 a person never seen before, who now
\* exists under the name the command gave and carries 20 in both totals.
C10_Witness ==
  /\ handled.handler = "cmd_fine"
  /\ outbox = << reply_text(handled.chat, <<"Fine 20 added to 1">>) >>
  /\ HasUser(group_data, handled.chat, 1)
  /\ group_data[handled.chat][1].name = "1"
  /\ group_data[handled.chat][1].daily_fines = 20
  /\ group_data[handled.chat][1].monthly_fines = 20

\* the limits as documented, in seconds: eat 30 min, toilet 15 min, smoke
\* 10 min, meeting 60 min
DocumentedLimit(kind) ==
  CASE kind = "eat" -> 1800 [] kind = "toilet" -> 900
    [] kind = "smoke" -> 600 [] kind = "meeting" -> 3600

\* C11: a press of an activity button adds exactly two jobs to the queue, a
\* warning due limit - 60 s and a timeout due limit s after the press, both
\* carrying (chat, user, kind); a warning is sent at its due time, and when a
\* timeout applies its fine, at its due time, no warning for the same
\* payload due 60 s earlier is still pending: it was sent 60 s before.
C11_WarningBeforeTimeout ==
  [][/\ \A c \in Chats, u \in Users, kind \in DOMAIN ACTIVITY_LIMITS :
          Dispatched("button_handler", c, u, kind) =>
            /\ jobs \subseteq jobs'
            /\ Cardinality(jobs' \ jobs) = 2
            /\ \E w, t \in jobs' \ jobs :
                 /\ w.callback = "send_warning_job"
                 /\ w.due = now + DocumentedLimit(kind) - 60
                 /\ w.context = <<c, u, kind>>
                 /\ t.callback = "timeout_job"
                 /\ t.due = now + DocumentedLimit(kind)
                 /\ t.context = <<c, u, kind>>
     /\ \A j \in jobs :
          Fired(j) =>
            /\ now = j.due
            /\ j.callback = "send_warning_job" =>
                 /\ \E i \in 1..Len(outbox') :
                      outbox'[i].api = "send_message"
                        /\ outbox'[i].to = j.context[1]
                 /\ group_data' = group_data
            /\ j.callback = "timeout_job" =>
                 /\ \A k \in jobs :
                      ~ ( /\ k.callback = "send_warning_job"
                          /\ k.context = j.context
                          /\ k.due = j.due - 60 )
                 /\ Daily(group_data', j.context[1], j.context[2])
                      = Daily(group_data, j.context[1], j.context[2])
                          + DocumentedFine(j.context[3])
    ]_vars

\* C11 witness: a toilet break started at 0 has timed out at 15 min, its
\* warning sent before, and the person carries the fine of 10 in both totals.
C11_Witness ==
  /\ handled.handler = "timeout_job" /\ handled.data = "toilet"
  /\ now = 900
  /\ \A j \in jobs : j.context # <<handled.chat, handled.user, "toilet">>
  /\ Daily(group_data, handled.chat, handled.user) = 10
  /\ Monthly(group_data, handled.chat, handled.user) = 10

\* argument lists of the fine command that are malformed: fewer than two
\* arguments, or an id or an amount that is not an integer
Malformed(args) ==
  \/ Len(args) < 2
  \/ args[1] \notin {<<"1">>, <<"7">>}
  \/ args[2] \notin {<<"2", "0">>, <<"-", "2", "0">>}

\* C12: a fine command from an admin with malformed arguments is answered
\* with the usage message, raises nothing, and leaves the store as it was.
C12_MalformedFineUsage ==
  [][\A c \in Chats, u \in ADMIN_USER_IDS, args \in ArgLists :
       ( /\ Malformed(args)
         /\ Dispatched("cmd_fine", c, u, "")
         /\ webhook(cmd_fine(c, u, args)) )
       => /\ outbox' = << reply_text(c, <<"Usage: /fine user_id amount">>) >>
          /\ fault' = "none"
          /\ group_data' = group_data
          /\ dict_order' = dict_order
    ]_vars

\* C13: every run of the daily reset, whatever the store holds (nothing at
\* all included), raises nothing and sends exactly one message, the
\* "daily reset complete" notification.
C13_DailyResetCompletes ==
  [][Ran("daily_reset_job") =>
       /\ fault' = "none"
       /\ Len(outbox') = 1
       /\ outbox'[1].api = "send_message"
       /\ outbox'[1].text = <<"Daily reset complete.">>
    ]_vars

\* the number of calls in a sequence of Bot API calls that satisfy P
Count(calls, P(_)) == Cardinality({i \in 1..Len(calls) : P(calls[i])})

\* C14: when a membership update adds the bot and the sender is no admin,
\* the bot leaves that chat once and every admin is sent one message naming
\* the chat and the sender; when the sender is an admin, or the bot is not
\* among the new members, the bot neither leaves nor notifies anybody. The
\* store is left alone either way.
C14_AutoLeave ==
  [][\A c \in Chats, u \in Users, m \in MemberLists :
       ( /\ Dispatched("handle_new_chat_members", c, u, "")
         /\ webhook(handle_new_chat_members(c, u, m)) )
       => /\ group_data' = group_data
          /\ IF (\E i \in 1..Len(m) : m[i] = 0) /\ u \notin {7}
             THEN /\ Count(outbox', LAMBDA x : x.api = "leave_chat") = 1
                  /\ Count(outbox', LAMBDA x : x = leave_chat(c)) = 1
                  /\ \A a \in ADMIN_USER_IDS :
                       /\ Count(outbox', LAMBDA x :
                            x.api = "send_message" /\ x.to = a) = 1
                       /\ Count(outbox', LAMBDA x :
                            x = send_message(a, <<"Bot was added to T"
                                  \o ToString(c) \o " by unauthorized user N"
                                  \o ToString(u)>>)) = 1
             ELSE outbox' = <<>>
    ]_vars

\* C14 witness: user 1, no admin, has added the bot to a chat; the bot has
\* left it and admin 7 holds the notice.
C14_Witness ==
  /\ handled.handler = "handle_new_chat_members"
  /\ handled.user = 1
  /\ \E i \in 1..Len(outbox) : outbox[i] = leave_chat(handled.chat)
  /\ \E i \in 1..Len(outbox) :
       outbox[i].api = "send_message" /\ outbox[i].to = 7

\* C15: a "back" takes no job from the queue; job identities are never
\* reused and a job leaves the queue only by being called, so it is called
\* at most once; every job due within the clock's range is eventually
\* called; and a timeout called after its activity was closed in time still
\* adds the fine of its kind to both totals.
C15_TimersFireDespiteBack ==
  /\ [][/\ \A c \in Chats, u \in Users :
             Dispatched("button_handler", c, u, "back") => jobs' = jobs
        /\ next_job' >= next_job
        /\ \A j \in jobs' \ jobs : j.id > next_job /\ j.id <= next_job'
        /\ \A j \in jobs \ jobs' :
             /\ handled'.handler = j.callback
             /\ <<handled'.chat, handled'.user, handled'.data>> = j.context
             /\ jobs' = jobs \ {j}
        /\ \A j \in jobs :
             ( /\ Fired(j) /\ j.callback = "timeout_job"
               /\ <<j.context[1], j.context[2], j.context[3], j.due>>
                    \in closed_early )
             => /\ Daily(group_data', j.context[1], j.context[2])
                     = Daily(group_data, j.context[1], j.context[2])
                         + DocumentedFine(j.context[3])
                /\ Monthly(group_data', j.context[1], j.context[2])
                     = Monthly(group_data, j.context[1], j.context[2])
                         + DocumentedFine(j.context[3])
       ]_vars
  /\ \A id \in 1..MaxJobs :
       (\E j \in jobs : j.id = id /\ j.due <= MaxTime)
         ~> (next_job >= id /\ \A j \in jobs : j.id # id)

\* C15 witness: an eat timeout has just been called although its activity
\* was closed by a "back" before the limit; the person carries its fine.
C15_Witness ==
  /\ handled.handler = "timeout_job" /\ handled.data = "eat"
  /\ <<handled.chat, handled.user, "eat", now>> \in closed_early
  /\ Stack(group_data, handled.chat, handled.user) = <<>>
  /\ Daily(group_data, handled.chat, handled.user) = 10

\* C16: a call of a timeout job leaves the activity stack, the work-session
\* start and the language of every person as they were (the activity that
\* timed out stays on the stack), and a call of a warning job leaves the
\* whole store as it was.
C16_TimersKeepSessions ==
  [][\A j \in jobs :
       Fired(j) =>
         /\ j.callback = "timeout_job" =>
              \A c \in Chats, u \in Users :
                /\ Stack(group_data', c, u) = Stack(group_data, c, u)
                /\ Person(group_data', c, u).work_start
                     = Person(group_data, c, u).work_start
                /\ Person(group_data', c, u).lang
                     = Person(group_data, c, u).lang
         /\ j.callback = "send_warning_job" =>
              group_data' = group_data /\ dict_order' = dict_order
    ]_vars

\* C16 witness: an eat timeout has been called and fined a person whose eat
\* record, started when the job was scheduled, is still on the stack.
C16_Witness ==
  /\ handled.handler = "timeout_job" /\ handled.data = "eat"
  /\ Daily(group_data, handled.chat, handled.user) = 10
  /\ \E i \in 1..Len(Stack(group_data, handled.chat, handled.user)) :
       Stack(group_data, handled.chat, handled.user)[i]
         = [type |-> "eat", start |-> now - 1800]

\* C17: a press of "work" sets the work-session start to the present time
\* and a press of "off" clears it, whatever it was before, both leaving the
\* activity stack and the totals of the person alone; a press of an activity
\* button, whatever the person's state, is answered "Started <kind>", puts
\* one record of that kind on top of the stack and leaves the work-session
\* start and the totals alone. In every state within the bounds on stack
\* depth and scheduled jobs each of these presses can be taken.
C17_PressesAlwaysAccepted ==
  /\ [][\A c \in Chats, u \in Users :
          LET old == Person(group_data, c, u)
              new == Person(group_data', c, u)
          IN  /\ Dispatched("button_handler", c, u, "work") =>
                   /\ new.work_start = <<now>>
                   /\ new.activities = old.activities
                   /\ new.daily_fines = old.daily_fines
                   /\ new.monthly_fines = old.monthly_fines
              /\ Dispatched("button_handler", c, u, "off") =>
                   /\ new.work_start = <<>>
                   /\ new.activities = old.activities
                   /\ new.daily_fines = old.daily_fines
                   /\ new.monthly_fines = old.monthly_fines
              /\ \A kind \in {"eat", "toilet", "smoke", "meeting"} :
                   Dispatched("button_handler", c, u, kind) =>
                     /\ Len(new.activities) = Len(old.activities) + 1
                     /\ new.activities
                          = Append(old.activities, [type |-> kind, start |-> now])
                     /\ outbox' = << answer(u, <<"Started " \o kind>>) >>
                     /\ new.work_start = old.work_start
                     /\ new.daily_fines = old.daily_fines
                     /\ new.monthly_fines = old.monthly_fines
       ]_vars
  /\ [](\A u \in Users :
          events < MaxPresses =>
            /\ ENABLED press(button_handler(1, u, "work"))
            /\ ENABLED press(button_handler(1, u, "off"))
            /\ \A kind \in {"eat", "toilet", "smoke", "meeting"} :
                 ( /\ Len(Stack(group_data, 1, u)) < MaxStack
                   /\ next_job + 2 <= MaxJobs )
                 => ENABLED press(button_handler(1, u, kind)))

\* C17 witness: a person at work with an eat record open has started eat
\* again; both records are on the stack and the work session still runs.
C17_Witness ==
  /\ handled.handler = "button_handler" /\ handled.data = "eat"
  /\ Len(Stack(group_data, handled.chat, handled.user)) = 2
  /\ Stack(group_data, handled.chat, handled.user)[1].type = "eat"
  /\ Stack(group_data, handled.chat, handled.user)[2].type = "eat"
  /\ Person(group_data, handled.chat, handled.user).work_start # <<>>

\* C18: the jobs a press of an activity button schedules carry the chat, the
\* user and the kind of that press; a pending job's record never changes
\* and no two pending jobs share an identity; and a call of a timeout job
\* adds the documented fine of the kind in its context to both totals of
\* the person in its context, in the chat in its context, and changes the
\* totals of no other person, whatever happened since it was scheduled.
C18_PayloadFixed ==
  /\ [][/\ \A c \in Chats, u \in Users, kind \in DOMAIN ACTIVITY_LIMITS :
             Dispatched("button_handler", c, u, kind) =>
               /\ jobs' # jobs
               /\ \A j \in jobs' \ jobs : j.context = <<c, u, kind>>
        /\ \A j \in jobs, k \in jobs' : k.id = j.id => k = j
        /\ \A j \in jobs :
             (Fired(j) /\ j.callback = "timeout_job") =>
               \A c \in Chats, u \in Users :
                 LET fine == IF <<c, u>> = <<j.context[1], j.context[2]>>
                             THEN DocumentedFine(j.context[3]) ELSE 0
                 IN  /\ Daily(group_data', c, u)
                          = Daily(group_data, c, u) + fine
                     /\ Monthly(group_data', c, u)
                          = Monthly(group_data, c, u) + fine
       ]_vars
  /\ [](\A j, k \in jobs : j.id = k.id => j = k)

\* C18 witness: user 1 started a smoke break in chat 2 and then changed
\* language; the timeout has fined user 1 in chat 2 by 10, and nobody in
\* chat 1.
C18_Witness ==
  /\ handled = Handled("timeout_job", 2, 1, "smoke")
  /\ Person(group_data, 2, 1).lang = "en"
  /\ Daily(group_data, 2, 1) = 10 /\ Monthly(group_data, 2, 1) = 10
  /\ Daily(group_data, 1, 1) = 0 /\ Monthly(group_data, 1, 1) = 0

\* the reply by which the fine command acknowledges an amount added to a
\* person
FineAck(c, u, amount) ==
  reply_text(c, <<"Fine " \o ToString(amount) \o " added to " \o ToString(u)>>)

\* C19: all totals start at zero, and in every step, for every person: a
\* timeout called for the person adds the documented fine of its kind to
\* both totals; a fine command acknowledged for the person adds its amount
\* to both; a run of the daily reset leaves the daily total at zero and the
\* monthly total alone; a run of the monthly report leaves the monthly total
\* at zero and the daily total alone; and no other step changes either
\* total. Hence each total is the sum of the fines applied to the person
\* since the last reset of that total.
C19_ExactAccounting ==
  /\ \A c \in Chats, u \in Users :
       Daily(group_data, c, u) = 0 /\ Monthly(group_data, c, u) = 0
  /\ [][\A c \in Chats, u \in Users :
          LET d == Daily(group_data', c, u) - Daily(group_data, c, u)
              m == Monthly(group_data', c, u) - Monthly(group_data, c, u)
              timeouts == { j \in jobs : /\ Fired(j)
                                         /\ j.callback = "timeout_job"
                                         /\ j.context[1] = c
                                         /\ j.context[2] = u }
              acks == { a \in {20, 0 - 20} :
                          /\ events' = events + 1
                          /\ handled'.handler = "cmd_fine"
                          /\ outbox' = << FineAck(c, u, a) >> }
          IN  /\ \A j \in timeouts :
                   d = DocumentedFine(j.context[3])
                     /\ m = DocumentedFine(j.context[3])
              /\ \A a \in acks : d = a /\ m = a
              /\ Ran("daily_reset_job") =>
                   Daily(group_data', c, u) = 0 /\ m = 0
              /\ Ran("monthly_report_job") =>
                   Monthly(group_data', c, u) = 0 /\ d = 0
              /\ ( /\ timeouts = {} /\ acks = {}
                   /\ ~ Ran("daily_reset_job") /\ ~ Ran("monthly_report_job") )
                 => d = 0 /\ m = 0
       ]_vars

\* C19 witness: a person fined 20 by an admin, cleared by the daily reset
\* and then fined 10 by a smoke timeout carries 10 for the day and 30 for
\* the month.
C19_Witness ==
  /\ handled.handler = "timeout_job" /\ handled.data = "smoke"
  /\ recurring = 1
  /\ Daily(group_data, handled.chat, handled.user) = 10
  /\ Monthly(group_data, handled.chat, handled.user) = 30

\* the keys whose entry a step creates or changes
Touched ==
  { k \in Keys(group_data') :
      ~ HasUser(group_data, k[1], k[2])
        \/ group_data'[k[1]][k[2]] # group_data[k[1]][k[2]] }

\* C20: no step removes a key or reorders the known keys, and no step
\* changes the name an entry was created with; a step other than a run of
\* the recurring jobs creates or changes at most one entry, which lies in
\* the chat of the update or job: the sender's for a button press or a
\* language command, the payload's person for a timer job, the person named
\* for an acknowledged fine; and a handler that finds its person's entry in
\* the store keeps every field it does not assign: a press or a language
\* command the totals, a timeout or a fine the stack, the work session and
\* the language.
C20_IsolatedPermanentEntries ==
  [][/\ Keys(group_data) \subseteq Keys(group_data')
     /\ Len(dict_order) <= Len(dict_order')
     /\ SubSeq(dict_order', 1, Len(dict_order)) = dict_order
     /\ \A k \in Keys(group_data) :
          group_data'[k[1]][k[2]].name = group_data[k[1]][k[2]].name
     /\ (~ Ran("daily_reset_job") /\ ~ Ran("monthly_report_job")) =>
          /\ Cardinality(Touched) <= 1
          /\ \A k \in Touched :
               /\ k[1] = handled'.chat
               /\ handled'.handler
                    \in {"button_handler", "cmd_set_lang", "cmd_start",
                         "timeout_job", "cmd_fine"}
               /\ handled'.handler # "cmd_fine" => k[2] = handled'.user
               /\ handled'.handler = "cmd_fine" =>
                    \E a \in {20, 0 - 20} :
                      outbox' = << FineAck(k[1], k[2], a) >>
               /\ HasUser(group_data, k[1], k[2]) =>
                    LET old == group_data[k[1]][k[2]]
                        new == group_data'[k[1]][k[2]]
                    IN  IF handled'.handler \in {"timeout_job", "cmd_fine"}
                        THEN /\ new.activities = old.activities
                             /\ new.work_start = old.work_start
                             /\ new.lang = old.lang
                        ELSE /\ new.daily_fines = old.daily_fines
                             /\ new.monthly_fines = old.monthly_fines
    ]_vars

\* C20 witness: user 1, entered into chat 1 by an admin's fine of 20, has
\* started a smoke break there; the entry still carries the name and the
\* totals it had, and no entry exists in chat 2.
C20_Witness ==
  /\ handled = Handled("button_handler", 1, 1, "smoke")
  /\ HasUser(group_data, 1, 1)
  /\ group_data[1][1].name = "1"
  /\ group_data[1][1].daily_fines = 20
  /\ Len(group_data[1][1].activities) = 1
  /\ ~ HasUser(group_data, 2, 1)
====
